---- MODULE Spec2Model ----
(***************************************************************************)
(* A model of the index lifecycle of doc_finder: the Indexer (indexer.py)  *)
(* with the DataLoader (data_loader.py) that feeds it.                     *)
(*                                                                         *)
(* Strings the code inspects (file names, page text, queries) are modelled *)
(* as sequences of one-character strings, so that lower(), endswith(),     *)
(* join() and strip() are computed, not assumed.                           *)
(*                                                                         *)
(* Every method is an operator from the state it reads (and the failures   *)
(* the environment arms for this call) to the exception it raises, the     *)
(* value it returns and the state it leaves.  The actions at the end apply *)
(* one method each to the current state, as a caller of the API would.     *)
(***************************************************************************)
EXTENDS Integers, Sequences, FiniteSets, TLC

\* ------------------------------------------------------------------ bounds
MaxFiles  == 2      \* longest listing of the PDF directory
MaxK      == 2      \* largest k passed to search

\* ------------------------------------------------------- program constants
DefaultK == 2       \* search(self, query, k = 2)

\* ----------------------------------------------------------------- strings
Whitespace == {" ", "\n", "\t"}

Lower(c) ==
  CASE c = "B" -> "b"
    [] c = "D" -> "d"
    [] c = "F" -> "f"
    [] c = "P" -> "p"
    [] c = "E" -> "e"
    [] c = "I" -> "i"
    [] c = "T" -> "t"
    [] c = "X" -> "x"
    [] c = "Y" -> "y"
    [] OTHER   -> c

LowerStr(s) == [i \in 1..Len(s) |-> Lower(s[i])]

EndsWith(s, suf) ==
  /\ Len(s) >= Len(suf)
  /\ SubSeq(s, Len(s) - Len(suf) + 1, Len(s)) = suf

PdfSuffix == <<".", "p", "d", "f">>

\* filename.lower().endswith(".pdf")
IsPdfName(name) == EndsWith(LowerStr(name), PdfSuffix)

RECURSIVE LStrip(_)
LStrip(s) == IF s # <<>> /\ Head(s) \in Whitespace THEN LStrip(Tail(s)) ELSE s

RECURSIVE RStrip(_)
RStrip(s) ==
  IF s # <<>> /\ s[Len(s)] \in Whitespace THEN RStrip(SubSeq(s, 1, Len(s) - 1)) ELSE s

\* str.strip()
Strip(s) == RStrip(LStrip(s))

RECURSIVE Join(_, _)
\* sep.join(parts)
Join(sep, parts) ==
  IF parts = <<>> THEN <<>>
  ELSE IF Len(parts) = 1 THEN parts[1]
  ELSE parts[1] \o sep \o Join(sep, Tail(parts))

RECURSIVE NonEmptyOnly(_)
\* [p for p in parts if p]
NonEmptyOnly(parts) ==
  IF parts = <<>> THEN <<>>
  ELSE IF Head(parts) = <<>> THEN NonEmptyOnly(Tail(parts))
  ELSE <<Head(parts)>> \o NonEmptyOnly(Tail(parts))

\* ------------------------------------------------------- the PDF directory
\* A directory entry: its name, whether PyPDFLoader.load() returns (ok) or
\* raises, and the page_content of the pages it returns.
FileA == [name  |-> <<"a", ".", "p", "d", "f">>, ok |-> TRUE,
          pages |-> << <<"f", "o", "x">> >>]
FileB == [name  |-> <<"B", ".", "P", "D", "F">>, ok |-> TRUE,
          pages |-> << <<"q">>, <<>>, <<"q", "u">> >>]
FileC == [name  |-> <<"c", ".", "t", "x", "t">>, ok |-> TRUE,
          pages |-> << <<"f">> >>]
FileD == [name  |-> <<"d", ".", "p", "d", "f">>, ok |-> TRUE,
          pages |-> << >>]
FileE == [name  |-> <<"e", ".", "P", "d", "f">>, ok |-> TRUE,
          pages |-> << <<" ">>, <<>>, <<"\t">> >>]
FileG == [name  |-> <<"g", ".", "p", "d", "f">>, ok |-> FALSE,
          pages |-> << >>]

FileUniverse == {FileA, FileB, FileC, FileD, FileE, FileG}

\* The listings of at most MaxFiles entries over a set of files.
ListingsOver(files) ==
  { l \in UNION { [1..n -> files] : n \in 0..MaxFiles } :
      \A i, j \in 1..Len(l) : i # j => l[i].name # l[j].name }

\* The directories the index is built from: two files with text, one that
\* is no PDF and one that fails to load.
Listings == ListingsOver({FileA, FileB, FileC, FileG})

\* config.PDF_DIRECTORY: absent, or a directory with a listing.
PdfDirs ==
  {[exists |-> FALSE, files |-> <<>>]} \cup
  {[exists |-> TRUE, files |-> l] : l \in Listings}

\* ---------------------------------------------------------------- embedding
\* The embedding model is a black box text -> vector; here a deterministic
\* number computed from the text.
Weight(c) ==
  CASE c = "f" -> 3
    [] c = "o" -> 1
    [] c = "q" -> 0 - 3
    [] c = "u" -> 0 - 1
    [] OTHER   -> 0

RECURSIVE Embed(_)
Embed(text) == IF text = <<>> THEN 0 ELSE Weight(Head(text)) + Embed(Tail(text))

Abs(x) == IF x < 0 THEN 0 - x ELSE x

Queries == { <<"f">>, <<"q", "u">> }

\* ------------------------------------------------------------------- state
VARIABLES
  vectorstore,   \* Indexer.vectorstore: the in-memory handle
  disk,          \* the index directory and its two artifact files
  pdfDir,        \* the PDF source directory
  embedder,      \* Indexer.embedder: "ok", or "nomodel" (no usable model)
  last,          \* the call that was made last and how it ended
  hist,          \* history: what the index location has seen
  app            \* the application around the Indexer: QueryEngine and main

vars == <<vectorstore, disk, pdfDir, embedder, last, hist, app>>

\* self.vectorstore = None
NoStore == [loaded |-> FALSE, vecs |-> <<>>, docs |-> <<>>]

NoFaiss == [st |-> "absent", vecs |-> <<>>]
NoPkl   == [st |-> "absent", docs |-> <<>>]

\* An index left by an earlier run of the program.
OldDocs == << [source |-> <<"o", ".", "p", "d", "f">>, text |-> <<"q">>] >>
OldFaiss == [st |-> "ok", vecs |-> <<Embed(OldDocs[1].text)>>]
OldPkl   == [st |-> "ok", docs |-> OldDocs]

InitDisks ==
  { [dir |-> FALSE, faiss |-> NoFaiss,  pkl |-> NoPkl],
    [dir |-> TRUE,  faiss |-> NoFaiss,  pkl |-> NoPkl],
    [dir |-> TRUE,  faiss |-> OldFaiss, pkl |-> OldPkl] }

\* ------------------------------------------------------------ index_exists
\* Variant: one artifact file is enough.
index_exists_either(d) ==
  d.dir /\ (d.faiss.st # "absent" \/ d.pkl.st # "absent")

index_exists(d) ==
  d.dir /\ d.faiss.st # "absent" /\ d.pkl.st # "absent"


\* ------------------------------------------------------------ failure points
\* What the environment may make fail during one call: os.remove of either
\* artifact, os.listdir in rebuild_index and in load_pdfs, os.makedirs, the
\* embedding of the documents, FAISS.save_local at four places (before any
\* write, while writing the vector file, between the two files, while
\* writing the metadata file), FAISS.load_local, and similarity_search.
RemoveFaults == {"rm_faiss", "rm_pkl"}
SaveFaults   == {"mkdir", "save_before", "save_faiss", "save_between", "save_pkl"}
BuildFaults  == {"embed"} \cup SaveFaults
LoadFaults   == {"load"}
SearchFaults == {"search"}
ScanFaults   == {"listdir", "scan"}
RebuildFaults == RemoveFaults \cup ScanFaults \cup BuildFaults
SetupFaults   == LoadFaults \cup RebuildFaults

\* The failures armed for one call.  Every method leaves by the first
\* exception raised in it (no handler resumes the work), so a call with
\* several failure points armed runs as the call with only the first of them
\* that is reached: arming at most one covers every combination.
FaultsOf(points) == {{}} \cup { {p} : p \in points }

\* isinstance(exception, class) for the exception classes that occur.
IsInstance(exc, class) ==
  \/ exc \notin {"none", "KeyboardInterrupt", "SystemExit"} /\ class = "Exception"
  \/ exc = class
  \/ exc = "FileNotFoundError" /\ class = "OSError"

\* The(S): the element of a one-element set.  The({e(r) : r \in {x}}) is e
\* with r bound to the value of x, computed once.
The(S) == CHOOSE x \in S : TRUE

\* -------------------------------------------------- _remove_existing_index
\* os.remove(path) of an artifact inside its try block; tried lists the
\* files os.remove was called on.
RemoveFile(d, which, f) ==
  IF which = "faiss"
  THEN IF "rm_faiss" \in f THEN [exc |-> "OSError", disk |-> d, tried |-> <<"faiss">>]
       ELSE [exc |-> "none", disk |-> [d EXCEPT !.faiss = NoFaiss], tried |-> <<"faiss">>]
  ELSE IF "rm_pkl" \in f THEN [exc |-> "OSError", disk |-> d, tried |-> <<"pkl">>]
       ELSE [exc |-> "none", disk |-> [d EXCEPT !.pkl = NoPkl], tried |-> <<"pkl">>]

\* The second half of _remove_existing_index, after the first half r1.
RemovePkl(r1, f) ==
  IF r1.disk.pkl.st # "absent"
  THEN The({ [r2 EXCEPT !.tried = r1.tried \o @]
             : r2 \in { RemoveFile(r1.disk, "pkl", f) } })
  ELSE [exc |-> "none", disk |-> r1.disk, tried |-> r1.tried]

\* Variant: a failed os.remove is logged and the removal goes on.
remove_existing_index_swallow(d, f) ==
  The({ RemovePkl(r1, f)
        : r1 \in { IF d.faiss.st # "absent"
                   THEN RemoveFile(d, "faiss", f)
                   ELSE [exc |-> "none", disk |-> d, tried |-> <<>>] } })

\* Variant: os.remove is called without the os.path.exists test, and on a
\* missing file it raises FileNotFoundError.
remove_existing_index_strict(d, f) ==
  IF d.faiss.st = "absent"
  THEN [exc |-> "FileNotFoundError", disk |-> d, tried |-> <<"faiss">>]
  ELSE The({ IF r1.exc # "none" THEN r1
             ELSE IF r1.disk.pkl.st = "absent"
             THEN [exc |-> "FileNotFoundError", disk |-> r1.disk,
                   tried |-> r1.tried \o <<"pkl">>]
             ELSE RemovePkl(r1, f)
             : r1 \in { RemoveFile(d, "faiss", f) } })

remove_existing_index(d, f) ==
  The({ IF r1.exc # "none" THEN r1 ELSE RemovePkl(r1, f)
        : r1 \in { IF d.faiss.st # "absent"
                   THEN RemoveFile(d, "faiss", f)
                   ELSE [exc |-> "none", disk |-> d, tried |-> <<>>] } })

\* ------------------------------------------------------------- save_index
\* Variant: a metadata file that is already there is kept.
save_local_keep_pkl(vs, d, f) ==
  IF f # {} THEN [exc |-> "Exception", disk |-> d]
  ELSE [exc |-> "none",
        disk |-> [d EXCEPT !.faiss = [st |-> "ok", vecs |-> vs.vecs],
                           !.pkl = IF d.pkl.st = "absent"
                                   THEN [st |-> "ok", docs |-> vs.docs] ELSE @]]

\* FAISS.save_local: writes <name>.faiss, then <name>.pkl; a failure leaves
\* what was written so far, the file being written truncated.
save_local(vs, d, f) ==
  IF "save_before" \in f THEN [exc |-> "Exception", disk |-> d]
  ELSE IF "save_faiss" \in f
  THEN [exc |-> "Exception",
        disk |-> [d EXCEPT !.faiss = [st |-> "corrupt", vecs |-> <<>>]]]
  ELSE IF "save_between" \in f
  THEN [exc |-> "Exception",
        disk |-> [d EXCEPT !.faiss = [st |-> "ok", vecs |-> vs.vecs]]]
  ELSE IF "save_pkl" \in f
  THEN [exc |-> "Exception",
        disk |-> [d EXCEPT !.faiss = [st |-> "ok", vecs |-> vs.vecs],
                           !.pkl = [st |-> "corrupt", docs |-> <<>>]]]
  ELSE [exc |-> "none",
        disk |-> [d EXCEPT !.faiss = [st |-> "ok", vecs |-> vs.vecs],
                           !.pkl = [st |-> "ok", docs |-> vs.docs]]]

\* Variant: a failure of save_local is logged and not raised again.
SaveTry_swallow(vs, d, f) ==
  IF ~d.dir /\ "mkdir" \in f
  THEN [exc |-> "OSError", vs |-> vs, disk |-> d]
  ELSE The({ [exc |-> "none", vs |-> vs, disk |-> r.disk]
             : r \in { save_local(vs, [d EXCEPT !.dir = TRUE], f) } })

\* The try block of save_index: makedirs if the directory is missing, then
\* save_local.
SaveTry(vs, d, f) ==
  IF ~d.dir /\ "mkdir" \in f
  THEN [exc |-> "OSError", vs |-> vs, disk |-> d]
  ELSE The({ [exc |-> r.exc, vs |-> vs, disk |-> r.disk]
             : r \in { save_local(vs, [d EXCEPT !.dir = TRUE], f) } })

\* Variant: no check of the handle.
save_index_unchecked(vs, d, f) == SaveTry(vs, d, f)

save_index(vs, d, f) ==
  IF ~vs.loaded
  THEN [exc |-> "ValueError", vs |-> vs, disk |-> d]
  ELSE SaveTry(vs, d, f)

\* ----------------------------------------------------- create_n_save_index
\* FAISS.from_documents: one vector per document, in order.
from_documents(documents) ==
  [loaded |-> TRUE,
   vecs   |-> [i \in 1..Len(documents) |-> Embed(documents[i].text)],
   docs   |-> documents]

\* Variant: the documents are added to those the handle already holds.
CreateTry_append(vs, d, documents, emb, f) ==
  IF ~d.dir /\ "mkdir" \in f
  THEN [exc |-> "OSError", vs |-> vs, disk |-> d]
  ELSE IF "embed" \in f
  THEN [exc |-> "Exception", vs |-> vs, disk |-> [d EXCEPT !.dir = TRUE]]
  ELSE The({ save_index(built, [d EXCEPT !.dir = TRUE], f)
             : built \in { from_documents(vs.docs \o documents) } })

\* Variant: the handle is set only when the save has succeeded.
CreateTry_save_first(vs, d, documents, emb, f) ==
  IF ~d.dir /\ "mkdir" \in f
  THEN [exc |-> "OSError", vs |-> vs, disk |-> d]
  ELSE IF "embed" \in f
  THEN [exc |-> "Exception", vs |-> vs, disk |-> [d EXCEPT !.dir = TRUE]]
  ELSE The({ IF r.exc # "none" THEN [r EXCEPT !.vs = vs] ELSE r
             : r \in { save_index(from_documents(documents),
                                  [d EXCEPT !.dir = TRUE], f) } })

\* The try block of create_n_save_index: makedirs if the directory is
\* missing, build the index, set the handle, save.
CreateTry(vs, d, documents, emb, f) ==
  IF ~d.dir /\ "mkdir" \in f
  THEN [exc |-> "OSError", vs |-> vs, disk |-> d]
  ELSE IF "embed" \in f
  THEN [exc |-> "Exception", vs |-> vs, disk |-> [d EXCEPT !.dir = TRUE]]
  ELSE The({ save_index(built, [d EXCEPT !.dir = TRUE], f)
             : built \in { from_documents(documents) } })

\* Variant: no check of the documents and the embedder.
create_n_save_index_unchecked(vs, d, documents, emb, f) ==
  CreateTry(vs, d, documents, emb, f)

create_n_save_index(vs, d, documents, emb, f) ==
  IF documents = <<>>
  THEN [exc |-> "ValueError", vs |-> vs, disk |-> d]
  ELSE IF emb # "ok"
  THEN [exc |-> "ValueError", vs |-> vs, disk |-> d]
  ELSE CreateTry(vs, d, documents, emb, f)

\* -------------------------------------------------------------- load_index
\* FAISS.load_local: reads the vector file, then unpickles the metadata file.
load_local(vs, d, f) ==
  IF "load" \in f \/ d.faiss.st # "ok" \/ d.pkl.st # "ok"
  THEN [exc |-> "Exception", vs |-> vs, disk |-> d]
  ELSE [exc |-> "none",
        vs  |-> [loaded |-> TRUE, vecs |-> d.faiss.vecs, docs |-> d.pkl.docs],
        disk |-> d]

\* Variant: a pair that cannot be loaded is deleted.
load_index_cleanup(vs, d, emb, f) ==
  IF ~index_exists(d)
  THEN [exc |-> "FileNotFoundError", vs |-> vs, disk |-> d]
  ELSE IF emb # "ok"
  THEN [exc |-> "ValueError", vs |-> vs, disk |-> d]
  ELSE The({ IF r.exc = "none" THEN r
             ELSE [r EXCEPT !.disk = [d EXCEPT !.faiss = NoFaiss, !.pkl = NoPkl]]
             : r \in { load_local(vs, d, f) } })

\* Variant: no check that the index exists.
load_index_unchecked(vs, d, emb, f) ==
  IF emb # "ok"
  THEN [exc |-> "ValueError", vs |-> vs, disk |-> d]
  ELSE load_local(vs, d, f)

load_index(vs, d, emb, f) ==
  IF ~index_exists(d)
  THEN [exc |-> "FileNotFoundError", vs |-> vs, disk |-> d]
  ELSE IF emb # "ok"
  THEN [exc |-> "ValueError", vs |-> vs, disk |-> d]
  ELSE load_local(vs, d, f)

\* ------------------------------------------------------------------ search
\* Distance of stored vector i to the vector qv of the query.
Dist(vs, qv, i) == Abs(vs.vecs[i] - qv)

\* The stored vector that comes first among those in `rest`: the nearest,
\* the earlier inserted on a tie.
Nearest(vs, qv, rest) ==
  CHOOSE i \in rest :
    \A j \in rest \ {i} :
      \/ Dist(vs, qv, i) < Dist(vs, qv, j)
      \/ Dist(vs, qv, i) = Dist(vs, qv, j) /\ i < j

RECURSIVE RankFrom(_, _, _, _)
RankFrom(vs, qv, rest, k) ==
  IF k <= 0 \/ rest = {} THEN <<>>
  ELSE The({ <<i>> \o RankFrom(vs, qv, rest \ {i}, k - 1)
             : i \in { Nearest(vs, qv, rest) } })

\* FAISS.similarity_search: the k nearest vectors, each mapped to its
\* document; a vector with no document in the docstore raises.
similarity_search(vs, q, k, f) ==
  IF "search" \in f THEN [exc |-> "Exception", ret |-> <<>>]
  ELSE The({ IF \E n \in 1..Len(ids) : ids[n] > Len(vs.docs)
             THEN [exc |-> "Exception", ret |-> <<>>]
             ELSE [exc |-> "none", ret |-> [n \in 1..Len(ids) |-> vs.docs[ids[n]]]]
             : ids \in { The({ RankFrom(vs, qv, 1..Len(vs.vecs), k)
                               : qv \in { Embed(q) } }) } })

\* raised: the exception raised inside the method, caught or not.
\* Variant: no check of the handle.
search_unchecked(vs, q, k, f) ==
  The({ [exc |-> "none", raised |-> r.exc,
         ret |-> IF r.exc # "none" THEN <<>> ELSE r.ret]
        : r \in { similarity_search(vs, q, k, f) } })

\* Variant: no except clause around the search.
search_propagating(vs, q, k, f) ==
  IF ~vs.loaded
  THEN [exc |-> "ValueError", raised |-> "ValueError", ret |-> <<>>]
  ELSE The({ [exc |-> r.exc, raised |-> r.exc, ret |-> r.ret]
             : r \in { similarity_search(vs, q, k, f) } })

search(vs, q, k, f) ==
  IF ~vs.loaded
  THEN [exc |-> "ValueError", raised |-> "ValueError", ret |-> <<>>]
  ELSE The({ IF IsInstance(r.exc, "Exception")
             THEN [exc |-> "none", raised |-> r.exc, ret |-> <<>>]
             ELSE [exc |-> "none", raised |-> "none", ret |-> r.ret]
             : r \in { similarity_search(vs, q, k, f) } })

\* --------------------------------------------------- DataLoader.load_pdfs
\* "\n".join([page.page_content for page in pages if page.page_content])
FullText(file) == Join(<<"\n">>, NonEmptyOnly(file.pages))

\* Variant: a file without text is kept as a Document with what it has.
LoadFile_keep_blank(file) ==
  IF ~IsPdfName(file.name) THEN <<>>
  ELSE IF ~file.ok THEN <<>>
  ELSE <<[source |-> file.name, text |-> FullText(file)]>>

\* One pass of the loop body: the Documents an entry adds to the list.
LoadFile(file) ==
  IF ~IsPdfName(file.name) THEN <<>>
  ELSE IF ~file.ok THEN <<>>
  ELSE IF file.pages = <<>> THEN <<>>
  ELSE The({ IF Strip(full_text) = <<>> THEN <<>>
             ELSE <<[source |-> file.name, text |-> full_text]>>
             : full_text \in { FullText(file) } })

RECURSIVE LoadFiles_abort(_)
\* Variant: the first file that fails to load ends the scan.
LoadFiles_abort(files) ==
  IF files = <<>> THEN <<>>
  ELSE IF IsPdfName(Head(files).name) /\ ~Head(files).ok THEN <<>>
  ELSE LoadFile(Head(files)) \o LoadFiles_abort(Tail(files))

RECURSIVE LoadFiles(_)
\* The loop over the listing.
LoadFiles(files) ==
  IF files = <<>> THEN <<>>
  ELSE LoadFile(Head(files)) \o LoadFiles(Tail(files))

load_pdfs(pd, f) ==
  IF ~pd.exists THEN [exc |-> "FileNotFoundError", docs |-> <<>>]
  ELSE IF "scan" \in f THEN [exc |-> "OSError", docs |-> <<>>]
  ELSE [exc |-> "none", docs |-> LoadFiles(pd.files)]

\* any(f.lower().endswith(".pdf") for f in os.listdir(config.PDF_DIRECTORY))
AnyPdf(pd) == \E i \in 1..Len(pd.files) : IsPdfName(pd.files[i].name)

\* ----------------------------------------------------------- rebuild_index
\* How a try block ends.  ret: the value returned; raised: the exception
\* that left the block; cause/at: the exception first raised below it and
\* the call it came from; calls: the calls made.
Outcome(ret, raised, at, vs, d, calls) ==
  [ret |-> ret, raised |-> raised, cause |-> raised, at |-> at,
   vs |-> vs, disk |-> d, calls |-> calls]

\* Variant: create_n_save_index is called with whatever load_pdfs returned.
RebuildFrom_always_create(vs, d, pd, emb, f) ==
  The({ IF ld.exc # "none"
        THEN Outcome(FALSE, ld.exc, "load_pdfs", vs, d,
                     <<"_remove_existing_index", "load_pdfs">>)
        ELSE The({ Outcome(cr.exc = "none", cr.exc,
                           IF cr.exc = "none" THEN "" ELSE "create_n_save_index",
                           cr.vs, cr.disk,
                           <<"_remove_existing_index", "load_pdfs",
                             "create_n_save_index">>)
                   : cr \in { create_n_save_index(vs, d, ld.docs, emb, f) } })
        : ld \in { load_pdfs(pd, f) } })

\* Steps 3 and 4 of rebuild_index, on the disk that step 1 left.
RebuildFrom(vs, d, pd, emb, f) ==
  The({ IF ld.exc # "none"
        THEN Outcome(FALSE, ld.exc, "load_pdfs", vs, d,
                     <<"_remove_existing_index", "load_pdfs">>)
        ELSE IF ld.docs = <<>>
        THEN Outcome(FALSE, "none", "", vs, d,
                     <<"_remove_existing_index", "load_pdfs">>)
        ELSE The({ Outcome(cr.exc = "none", cr.exc,
                           IF cr.exc = "none" THEN "" ELSE "create_n_save_index",
                           cr.vs, cr.disk,
                           <<"_remove_existing_index", "load_pdfs",
                             "create_n_save_index">>)
                   : cr \in { create_n_save_index(vs, d, ld.docs, emb, f) } })
        : ld \in { load_pdfs(pd, f) } })

\* The try block of rebuild_index.
RebuildTry(vs, d, pd, emb, f) ==
  The({ IF rm.exc # "none"
        THEN Outcome(FALSE, rm.exc, "_remove_existing_index", vs, rm.disk,
                     <<"_remove_existing_index">>)
        ELSE IF ~pd.exists
        THEN Outcome(FALSE, "none", "", vs, rm.disk, <<"_remove_existing_index">>)
        ELSE IF "listdir" \in f
        THEN Outcome(FALSE, "OSError", "listdir", vs, rm.disk,
                     <<"_remove_existing_index">>)
        ELSE IF ~AnyPdf(pd)
        THEN Outcome(FALSE, "none", "", vs, rm.disk, <<"_remove_existing_index">>)
        ELSE RebuildFrom(vs, rm.disk, pd, emb, f)
        : rm \in { remove_existing_index(d, f) } })

\* A try block under its except clauses: exc is what leaves the method, and
\* a caught exception makes the method return False.
Handled(b, classes, name) ==
  IF \E c \in classes : IsInstance(b.raised, c)
  THEN [ret |-> FALSE, exc |-> "none", cause |-> b.cause, at |-> b.at,
        vs |-> b.vs, disk |-> b.disk, calls |-> <<name>> \o b.calls]
  ELSE [ret |-> b.ret, exc |-> b.raised, cause |-> b.cause, at |-> b.at,
        vs |-> b.vs, disk |-> b.disk, calls |-> <<name>> \o b.calls]

\* Variant: a rebuild that fails sets the handle back to None.
rebuild_index_reset(vs, d, pd, emb, f) ==
  The({ IF h.ret THEN h ELSE [h EXCEPT !.vs = NoStore]
        : h \in { The({ Handled(b, {"FileNotFoundError", "ValueError", "Exception"},
                                "rebuild_index")
                        : b \in { RebuildTry(vs, d, pd, emb, f) } }) } })

\* Variant: without the last except clause.
rebuild_index_narrow(vs, d, pd, emb, f) ==
  The({ Handled(b, {"FileNotFoundError", "ValueError"}, "rebuild_index")
        : b \in { RebuildTry(vs, d, pd, emb, f) } })

rebuild_index(vs, d, pd, emb, f) ==
  The({ Handled(b, {"FileNotFoundError", "ValueError", "Exception"}, "rebuild_index")
        : b \in { RebuildTry(vs, d, pd, emb, f) } })

\* ------------------------------------------------------------- setup_index
\* The try block of setup_index.
SetupTry(vs, d, pd, emb, f) ==
  IF index_exists(d)
  THEN The({ Outcome(ld.exc = "none", ld.exc,
                     IF ld.exc = "none" THEN "" ELSE "load_index",
                     ld.vs, ld.disk, <<"load_index">>)
             : ld \in { load_index(vs, d, emb, f) } })
  ELSE The({ [Outcome(rb.ret, rb.exc, rb.at, rb.vs, rb.disk, rb.calls)
                EXCEPT !.cause = rb.cause]
             : rb \in { rebuild_index(vs, d, pd, emb, f) } })

\* Variant: no except clause.
setup_index_unguarded(vs, d, pd, emb, f) ==
  The({ Handled(b, {}, "setup_index")
        : b \in { SetupTry(vs, d, pd, emb, f) } })

\* Variant: the branch that loads an existing index lacks its return True.
setup_index_no_return(vs, d, pd, emb, f) ==
  The({ Handled(IF index_exists(d) THEN [b EXCEPT !.ret = FALSE] ELSE b,
                {"Exception"}, "setup_index")
        : b \in { SetupTry(vs, d, pd, emb, f) } })

\* Variant: rebuilds whether or not an index exists.
setup_index_always_rebuild(vs, d, pd, emb, f) ==
  The({ Handled([Outcome(rb.ret, rb.exc, rb.at, rb.vs, rb.disk, rb.calls)
                   EXCEPT !.cause = rb.cause],
                {"Exception"}, "setup_index")
        : rb \in { rebuild_index(vs, d, pd, emb, f) } })

setup_index(vs, d, pd, emb, f) ==
  The({ Handled(b, {"Exception"}, "setup_index")
        : b \in { SetupTry(vs, d, pd, emb, f) } })

\* ------------------------------------------------------------- LLMHandler
\* What self.llm.invoke(prompt) does in one call: it raises, or it returns a
\* text.  str() of the returned text is the text.
LLMTexts == { <<"o", "k">>, <<" ", "o", "k", "\n">>, <<"-", " ", "o">>, <<>> }

LLMOutcomes ==
  { [exc |-> "none", text |-> t] : t \in LLMTexts }
    \cup { [exc |-> e, text |-> <<>>] : e \in {"Exception", "ValueError"} }

\* config.LLM_PROVIDER and config.GROQ_API_KEY as the environment sets them;
\* made says whether an LLMHandler instance exists.
Providers == {"ollama", "groq", "Groq", "openai"}
ApiKeys == {"<unset>", "", "gsk"}
LLMConfigs == [provider : Providers, key : ApiKeys, made : {FALSE}]

\* The configuration the other components are run with.
DefaultConfig == [provider |-> "groq", key |-> "gsk", made |-> TRUE]

\* not config.GROQ_API_KEY
NoApiKey(key) == key \in {"<unset>", ""}

\* Variant: a provider that is not known is served by the local model.
get_llm_lenient(provider, key) ==
  IF provider = "groq"
  THEN IF NoApiKey(key) THEN [exc |-> "ValueError", llm |-> "none"]
       ELSE [exc |-> "none", llm |-> "ChatGroq"]
  ELSE [exc |-> "none", llm |-> "OllamaLLM"]

\* LLMHandler._get_llm
get_llm(provider, key) ==
  IF provider = "ollama" THEN [exc |-> "none", llm |-> "OllamaLLM"]
  ELSE IF provider = "groq"
  THEN IF NoApiKey(key) THEN [exc |-> "ValueError", llm |-> "none"]
       ELSE [exc |-> "none", llm |-> "ChatGroq"]
  ELSE [exc |-> "ValueError", llm |-> "none"]

\* LLMHandler.generate_response
generate_response(prompt, llm) ==
  IF llm.exc # "none" THEN [exc |-> llm.exc, ret |-> <<>>]
  ELSE [exc |-> "none", ret |-> llm.text]

\* ------------------------------------------------------------- QueryEngine
\* The fixed texts of query(); a text is a sequence whose elements are
\* characters or whole literals.
NoRelevantMsg ==
  << "I could not find any PDF files in the index that seem relevant to your query." >>
IndexUnavailableMsg ==
  << "Error: The document index is not available. Please ensure it has been created or loaded." >>
UnexpectedMsg ==
  << "An unexpected error occurred while processing your query." >>
AnswerHead ==
  << "Based on your query, the following PDF files might contain relevant information:\n" >>
SuggestionHead == << "LLM Suggestion:\n" >>
PromptHead == << "Potentially Relevant PDF Filenames:\n" >>
PromptQuery == << "User Query: " >>
PromptTail == << "Suggested files to check:" >>
Bullet == << "- " >>
NextBullet == << "\n- " >>

\* ord(c) of the characters of file names.
Ord(c) ==
  CASE c = "." -> 46
    [] c = "B" -> 66
    [] c = "D" -> 68
    [] c = "F" -> 70
    [] c = "P" -> 80
    [] c = "a" -> 97
    [] c = "d" -> 100
    [] c = "f" -> 102
    [] c = "o" -> 111
    [] c = "p" -> 112
    [] OTHER   -> 0

RECURSIVE StrLess(_, _)
\* a < b for two str: by code point, a proper prefix first.
StrLess(a, b) ==
  IF b = <<>> THEN FALSE
  ELSE IF a = <<>> THEN TRUE
  ELSE IF Ord(Head(a)) # Ord(Head(b)) THEN Ord(Head(a)) < Ord(Head(b))
  ELSE StrLess(Tail(a), Tail(b))

RECURSIVE SortedList(_)
\* sorted(list(S)) for a set S of str.
SortedList(S) ==
  IF S = {} THEN <<>>
  ELSE The({ <<least>> \o SortedList(S \ {least})
             : least \in { CHOOSE x \in S : \A y \in S \ {x} : StrLess(x, y) } })

\* [doc.metadata.get('source', 'Unknown Source') for doc in docs]; every
\* Document of the model carries metadata['source'].
relevant_filenames(docs) == [i \in 1..Len(docs) |-> docs[i].source]

\* Variant: the names as the search ranked them, duplicates kept.
unique_filenames_as_ranked(docs) == relevant_filenames(docs)

\* sorted(list(set(relevant_filenames)))
unique_filenames(docs) ==
  SortedList({ relevant_filenames(docs)[i] : i \in 1..Len(docs) })

\* The try block of get_relevant_docs with its except clause.
GetDocsTry(vs, q, f) ==
  The({ IF IsInstance(r.exc, "Exception")
        THEN [exc |-> "none", raised |-> r.exc, ret |-> <<>>]
        ELSE [exc |-> "none", raised |-> r.raised, ret |-> r.ret]
        : r \in { search(vs, q, DefaultK, f) } })

\* Variant: no check of indexer.vectorstore before the search.
get_relevant_docs_unchecked(vs, q, f) == GetDocsTry(vs, q, f)

\* QueryEngine.get_relevant_docs: exc leaves the method, raised was caught
\* inside it or inside Indexer.search.
get_relevant_docs(vs, q, f) ==
  IF ~vs.loaded
  THEN [exc |-> "ValueError", raised |-> "ValueError", ret |-> <<>>]
  ELSE GetDocsTry(vs, q, f)

\* The prompt handed to the completion service.
PromptOf(names, q) ==
  PromptHead \o Bullet \o Join(NextBullet, names) \o PromptQuery \o q \o PromptTail

\* final_response
FinalResponse(names, response_text) ==
  AnswerHead \o Bullet \o Join(NextBullet, names) \o <<"\n\n">>
    \o SuggestionHead \o Strip(response_text)

\* What one call of query() comes to: the exception that leaves it, the str
\* it returns, the documents the search gave, the number of calls of the
\* completion service, the text that service returned and the exception
\* that was caught on the way.
QueryOutcome(exc, ret, found, llmCalls, text, raised) ==
  [exc |-> exc, ret |-> ret, found |-> found, llmCalls |-> llmCalls,
   text |-> text, raised |-> raised]

\* The else branch of query(): names, prompt, completion, final response.
Suggest(docs, q, llm, raised) ==
  The({ IF g.exc # "none"
        THEN QueryOutcome(g.exc, <<>>, docs, 1, <<>>, g.exc)
        ELSE QueryOutcome("none", FinalResponse(unique_filenames(docs), g.ret),
                          docs, 1, g.ret, raised)
        : g \in { generate_response(PromptOf(unique_filenames(docs), q), llm) } })

\* Variant: the completion service is asked whatever the search gave.
QueryTry_always_suggest(vs, q, f, llm) ==
  The({ IF r.exc # "none"
        THEN QueryOutcome(r.exc, <<>>, <<>>, 0, <<>>, r.exc)
        ELSE IF r.ret = <<>> /\ llm.exc = "none"
        THEN QueryOutcome("none", NoRelevantMsg, <<>>, 1, llm.text, r.raised)
        ELSE Suggest(r.ret, q, llm, r.raised)
        : r \in { get_relevant_docs(vs, q, f) } })

\* The try block of query().
QueryTry(vs, q, f, llm) ==
  The({ IF r.exc # "none"
        THEN QueryOutcome(r.exc, <<>>, <<>>, 0, <<>>, r.exc)
        ELSE IF r.ret = <<>>
        THEN QueryOutcome("none", NoRelevantMsg, <<>>, 0, <<>>, r.raised)
        ELSE Suggest(r.ret, q, llm, r.raised)
        : r \in { get_relevant_docs(vs, q, f) } })

\* Variant: query() without its except clauses.
query_unguarded(vs, q, f, llm) == QueryTry(vs, q, f, llm)

\* QueryEngine.query
query(vs, q, f, llm) ==
  The({ IF IsInstance(b.exc, "ValueError")
        THEN [b EXCEPT !.exc = "none", !.ret = IndexUnavailableMsg]
        ELSE IF IsInstance(b.exc, "Exception")
        THEN [b EXCEPT !.exc = "none", !.ret = UnexpectedMsg]
        ELSE b
        : b \in { QueryTry(vs, q, f, llm) } })

\* ------------------------------------------------------------------ actions
\* What `last` records of a call: the method, the exception that left it,
\* its return value (retB for a boolean, retDocs for documents), the
\* exception raised inside it and where, the calls it made, and its numeric
\* argument (k for search, len(documents) for create_n_save_index).
Call(op, exc, retB, retDocs, raised, at, calls, arg) ==
  [op |-> op, exc |-> exc, retB |-> retB, retDocs |-> retDocs,
   raised |-> raised, at |-> at, calls |-> calls, arg |-> arg]

\* The document lists a caller passes to create_n_save_index: none, or what
\* the loader makes of the PDF directory.
DocLists == { <<>>, LoadFiles(pdfDir.files) }

\* The history after a call: persisted says that the call reached
\* create_n_save_index or save_index, setups counts the calls of setup_index
\* made in a row without an armed failure (it stops counting at two), and
\* rebuilds the calls of rebuild_index made in a row in which nothing
\* raised.
Hist(persisted, setups) ==
  [fresh |-> hist.fresh, persistCalled |-> hist.persistCalled \/ persisted,
   setups |-> setups, rebuilds |-> 0]

Reached(calls, name) == \E i \in 1..Len(calls) : calls[i] = name

\* No call of query() made yet.
NoQuery == QueryOutcome("none", <<>>, <<>>, 0, <<>>, "none")

\* The application before main runs: app.q is the outcome of the last call
\* of query(), app.pc the place main has reached, app.inputs what the user
\* will still type, app.queries the number of calls of query() made by
\* query_loop, app.status the exit status of the process, app.looped
\* whether query_loop was entered.
NoApp == [pc |-> "api", q |-> NoQuery, inputs |-> <<>>, queries |-> 0,
          status |-> 0, looped |-> FALSE, llm |-> DefaultConfig]

\* Indexer.__init__, with the directories as the process finds them.
Init ==
  /\ vectorstore = NoStore
  /\ disk \in InitDisks
  /\ pdfDir \in PdfDirs
  /\ embedder \in {"ok", "nomodel"}
  /\ last = [op |-> "__init__", exc |-> "none", retB |-> FALSE, retDocs |-> <<>>,
             raised |-> "none", at |-> "", calls |-> <<>>, arg |-> 0]
  /\ hist = [fresh |-> disk.faiss.st = "absent" /\ disk.pkl.st = "absent",
             persistCalled |-> FALSE, setups |-> 0, rebuilds |-> 0]
  /\ app = NoApp

IndexExists ==
  /\ last' = Call("index_exists", "none", index_exists(disk), <<>>, "none", "", <<>>, 0)
  /\ hist' = Hist(FALSE, 0)
  /\ UNCHANGED <<vectorstore, disk, pdfDir, embedder, app>>

RemoveExistingIndex ==
  \E f \in FaultsOf(RemoveFaults) :
    \E r \in { remove_existing_index(disk, f) } :
       /\ disk' = r.disk
       /\ last' = Call("_remove_existing_index", r.exc, FALSE, <<>>, r.exc,
                       IF f = {} THEN "" ELSE The(f), r.tried, 0)
       /\ hist' = Hist(FALSE, 0)
       /\ UNCHANGED <<vectorstore, pdfDir, embedder, app>>

CreateNSaveIndex ==
  \E documents \in DocLists, f \in FaultsOf(BuildFaults) :
    \E r \in { create_n_save_index(vectorstore, disk, documents, embedder, f) } :
       /\ vectorstore' = r.vs
       /\ disk' = r.disk
       /\ last' = Call("create_n_save_index", r.exc, FALSE, <<>>, r.exc,
                       IF f = {} THEN "" ELSE The(f), <<>>, Len(documents))
       /\ hist' = Hist(TRUE, 0)
       /\ UNCHANGED <<pdfDir, embedder, app>>

SaveIndex ==
  \E f \in FaultsOf(SaveFaults) :
    \E r \in { save_index(vectorstore, disk, f) } :
       /\ vectorstore' = r.vs
       /\ disk' = r.disk
       /\ last' = Call("save_index", r.exc, FALSE, <<>>, r.exc, "", <<>>, 0)
       /\ hist' = Hist(TRUE, 0)
       /\ UNCHANGED <<pdfDir, embedder, app>>

LoadIndex ==
  \E f \in FaultsOf(LoadFaults) :
    \E r \in { load_index(vectorstore, disk, embedder, f) } :
       /\ vectorstore' = r.vs
       /\ disk' = r.disk
       /\ last' = Call("load_index", r.exc, FALSE, <<>>, r.exc, "", <<>>, 0)
       /\ hist' = Hist(FALSE, 0)
       /\ UNCHANGED <<pdfDir, embedder, app>>

Search ==
  \E q \in Queries, k \in 0..MaxK, f \in FaultsOf(SearchFaults) :
    \E r \in { search(vectorstore, q, k, f) } :
       /\ last' = Call("search", r.exc, FALSE, r.ret, r.raised, "", <<>>, k)
       /\ hist' = Hist(FALSE, 0)
       /\ UNCHANGED <<vectorstore, disk, pdfDir, embedder, app>>

SetupIndex ==
  \E f \in FaultsOf(SetupFaults) :
    \E r \in { setup_index(vectorstore, disk, pdfDir, embedder, f) } :
       /\ vectorstore' = r.vs
       /\ disk' = r.disk
       /\ last' = Call("setup_index", r.exc, r.ret, <<>>, r.cause, r.at, r.calls, 0)
       /\ hist' = Hist(Reached(r.calls, "create_n_save_index"),
                       IF f # {} THEN 0 ELSE IF hist.setups = 0 THEN 1 ELSE 2)
       /\ UNCHANGED <<pdfDir, embedder, app>>

RebuildIndex ==
  \E f \in FaultsOf(RebuildFaults) :
    \E r \in { rebuild_index(vectorstore, disk, pdfDir, embedder, f) } :
       /\ vectorstore' = r.vs
       /\ disk' = r.disk
       /\ last' = Call("rebuild_index", r.exc, r.ret, <<>>, r.cause, r.at, r.calls, 0)
       /\ hist' = [Hist(Reached(r.calls, "create_n_save_index"), 0) EXCEPT
                     !.rebuilds = IF r.cause # "none" THEN 0
                                  ELSE IF hist.rebuilds = 0 THEN 1 ELSE 2]
       /\ UNCHANGED <<pdfDir, embedder, app>>

Next ==
  \/ IndexExists
  \/ RemoveExistingIndex
  \/ CreateNSaveIndex
  \/ SaveIndex
  \/ LoadIndex
  \/ Search
  \/ SetupIndex
  \/ RebuildIndex

Spec == Init /\ [][Next]_vars

\* ------------------------------------------------ QueryEngine over an Indexer
\* Documents that are pieces of files: two of them share their source.
ChunkedDocs ==
  << [source |-> FileA.name, text |-> <<"f">>],
     [source |-> FileB.name, text |-> <<"q">>],
     [source |-> FileA.name, text |-> <<"f", "o">>] >>

\* QueryEngine(indexer, llm_handler) over a new Indexer with a usable
\* embedder.
QueryInit ==
  /\ vectorstore = NoStore
  /\ disk \in InitDisks
  /\ pdfDir = [exists |-> TRUE, files |-> <<FileA, FileB>>]
  /\ embedder = "ok"
  /\ last = [op |-> "__init__", exc |-> "none", retB |-> FALSE, retDocs |-> <<>>,
             raised |-> "none", at |-> "", calls |-> <<>>, arg |-> 0]
  /\ hist = [fresh |-> disk.faiss.st = "absent" /\ disk.pkl.st = "absent",
             persistCalled |-> FALSE, setups |-> 0, rebuilds |-> 0]
  /\ app = NoApp

\* create_n_save_index called with documents that share sources.
CreateFromChunks ==
  \E r \in { create_n_save_index(vectorstore, disk, ChunkedDocs, embedder, {}) } :
     /\ vectorstore' = r.vs
     /\ disk' = r.disk
     /\ last' = Call("create_n_save_index", r.exc, FALSE, <<>>, r.exc, "", <<>>,
                     Len(ChunkedDocs))
     /\ hist' = Hist(TRUE, 0)
     /\ UNCHANGED <<pdfDir, embedder, app>>

\* query_engine.query(user_query)
Query ==
  \E q \in Queries, f \in FaultsOf(SearchFaults), llm \in LLMOutcomes :
    \E r \in { query(vectorstore, q, f, llm) } :
       /\ app' = [app EXCEPT !.q = r]
       /\ last' = Call("query", r.exc, FALSE, r.found, r.raised, "", <<>>, 0)
       /\ hist' = Hist(FALSE, 0)
       /\ UNCHANGED <<vectorstore, disk, pdfDir, embedder>>

QueryNext ==
  \/ CreateNSaveIndex
  \/ CreateFromChunks
  \/ LoadIndex
  \/ Query

SpecQuery == QueryInit /\ [][QueryNext]_vars

\* Every public call of the Indexer and of the QueryEngine over it.
EngineNext ==
  \/ IndexExists
  \/ RemoveExistingIndex
  \/ CreateNSaveIndex
  \/ SaveIndex
  \/ LoadIndex
  \/ Search
  \/ SetupIndex
  \/ RebuildIndex
  \/ Query

SpecEngine == QueryInit /\ [][EngineNext]_vars


\* --------------------------------------------- DataLoader and LLMHandler
\* The PDF directories the loader is run on: every listing over the files.
LoaderDirs ==
  {[exists |-> FALSE, files |-> <<>>]} \cup
  {[exists |-> TRUE, files |-> l] : l \in ListingsOver(FileUniverse)}

\* A DataLoader on a PDF directory and the configuration of the LLM, before
\* LLMHandler() is called.
ComponentsInit ==
  /\ vectorstore = NoStore
  /\ disk = [dir |-> TRUE, faiss |-> NoFaiss, pkl |-> NoPkl]
  /\ pdfDir \in LoaderDirs
  /\ embedder = "ok"
  /\ last = [op |-> "__init__", exc |-> "none", retB |-> FALSE, retDocs |-> <<>>,
             raised |-> "none", at |-> "", calls |-> <<>>, arg |-> 0]
  /\ hist = [fresh |-> TRUE, persistCalled |-> FALSE, setups |-> 0, rebuilds |-> 0]
  /\ \E c \in LLMConfigs : app = [NoApp EXCEPT !.llm = c]

\* data_loader.load_pdfs()
LoadPdfs ==
  \E f \in FaultsOf({"scan"}) :
    \E r \in { load_pdfs(pdfDir, f) } :
       /\ last' = Call("load_pdfs", r.exc, FALSE, r.docs, r.exc, "", <<>>, 0)
       /\ hist' = Hist(FALSE, 0)
       /\ UNCHANGED <<vectorstore, disk, pdfDir, embedder, app>>

\* LLMHandler()
NewLLMHandler ==
  \E r \in { get_llm(app.llm.provider, app.llm.key) } :
     /\ app' = [app EXCEPT !.llm.made = (r.exc = "none")]
     /\ last' = Call("LLMHandler", r.exc, FALSE, <<>>, r.exc, r.llm, <<>>, 0)
     /\ hist' = Hist(FALSE, 0)
     /\ UNCHANGED <<vectorstore, disk, pdfDir, embedder>>

ComponentsNext ==
  \/ LoadPdfs
  \/ NewLLMHandler

SpecComponents == ComponentsInit /\ [][ComponentsNext]_vars

\* ------------------------------------------------------------------- main
MaxInputs == 3      \* the number of things the user does at the prompts

ExitFailure == 1    \* sys.exit(1)

\* What input() meets: a line typed (without its newline), Ctrl-C, or the
\* end of standard input.
InputLines ==
  { <<"Y">>, <<" ", "E", "x", "i", "t">>, <<" ">>, <<>>, <<"f">> }

InputEvents ==
  { [kind |-> "line", text |-> t] : t \in InputLines }
    \cup { [kind |-> "interrupt", text |-> <<>>], [kind |-> "eof", text |-> <<>>] }

\* What the user does during one run; nothing is typed after the end of
\* standard input.
InputSeqs ==
  { s \in UNION { [1..n -> InputEvents] : n \in 0..MaxInputs } :
      \A i \in 1..Len(s) : s[i].kind = "eof" => i = Len(s) }

\* The PDF directories main is started on.
MainPdfDirs ==
  { [exists |-> FALSE, files |-> <<>>],
    [exists |-> TRUE,  files |-> <<>>],
    [exists |-> TRUE,  files |-> <<FileC>>],
    [exists |-> TRUE,  files |-> <<FileA, FileB>>] }

InitFaults == {"mkdir_pdf", "mkdir", "model", "llm_config"}

\* initialize_components: the two create_directory calls, Embedder() and
\* LLMHandler(); any exception is re-raised.
initialize_components(d, pd, f) ==
  IF ~pd.exists /\ "mkdir_pdf" \in f THEN [exc |-> "OSError", disk |-> d, pd |-> pd]
  ELSE IF ~d.dir /\ "mkdir" \in f
  THEN [exc |-> "OSError", disk |-> d, pd |-> [pd EXCEPT !.exists = TRUE]]
  ELSE [exc |-> IF "model" \in f THEN "Exception"
                ELSE IF "llm_config" \in f THEN get_llm("groq", "<unset>").exc
                ELSE get_llm(DefaultConfig.provider, DefaultConfig.key).exc,
        disk |-> [d EXCEPT !.dir = TRUE], pd |-> [pd EXCEPT !.exists = TRUE]]

ExitWord == <<"e", "x", "i", "t">>

\* choice in ['yes', 'y'] for choice = input(...).strip().lower()
IsYes(line) == LowerStr(Strip(line)) \in { <<"y", "e", "s">>, <<"y">> }

\* Variant: main goes on to query_loop whatever the index call returned.
StartupNext_unguarded(ok) == "loop"

\* After rebuild_index, load_index or setup_index in main: index_ready and
\* query_loop, or sys.exit(1).
StartupNext(ok) == IF ok THEN "loop" ELSE "exit"

\* response = query_engine.query(user_query) inside the try block.
AskQuery(vs, text, f, llm) ==
  The({ [next |-> IF r.exc # "none" THEN "raise" ELSE "continue",
         asked |-> TRUE, q |-> r, raised |-> r.exc]
        : r \in { query(vs, text, f, llm) } })

\* What input() does with an event that is no line: it raises.
InputRaises(ev) ==
  [next |-> "raise", asked |-> FALSE, q |-> NoQuery,
   raised |-> IF ev.kind = "interrupt" THEN "KeyboardInterrupt" ELSE "EOFError"]

\* Variant: the input is compared with "exit" as typed.
LoopTry_raw(vs, ev, f, llm) ==
  IF ev.kind # "line" THEN InputRaises(ev)
  ELSE IF ev.text = ExitWord
  THEN [next |-> "break", asked |-> FALSE, q |-> NoQuery, raised |-> "none"]
  ELSE IF ev.text = <<>>
  THEN [next |-> "continue", asked |-> FALSE, q |-> NoQuery, raised |-> "none"]
  ELSE AskQuery(vs, ev.text, f, llm)

\* One pass of the try block of query_loop: next is what the loop does,
\* asked whether query() was called, raised the exception that leaves the
\* block.
LoopTry(vs, ev, f, llm) ==
  IF ev.kind # "line" THEN InputRaises(ev)
  ELSE IF LowerStr(Strip(ev.text)) = ExitWord
  THEN [next |-> "break", asked |-> FALSE, q |-> NoQuery, raised |-> "none"]
  ELSE IF Strip(ev.text) = <<>>
  THEN [next |-> "continue", asked |-> FALSE, q |-> NoQuery, raised |-> "none"]
  ELSE AskQuery(vs, ev.text, f, llm)

\* Variant: query_loop without its except Exception clause.
LoopPass_no_except(b) ==
  IF b.raised = "KeyboardInterrupt" THEN [b EXCEPT !.next = "break"] ELSE b

\* One pass of the while loop of query_loop: the try block under its two
\* except clauses.
LoopPass(b) ==
  IF b.raised = "KeyboardInterrupt" THEN [b EXCEPT !.next = "break"]
  ELSE IF IsInstance(b.raised, "Exception") THEN [b EXCEPT !.next = "continue"]
  ELSE b

\* Where main is after a pass of query_loop: at the prompt again, returned
\* after a break, or in its own except Exception clause and sys.exit(1).
AfterPass(o) ==
  IF o.next = "continue" THEN "loop"
  ELSE IF o.next = "break" THEN "done"
  ELSE "exit"

\* python -m ai_app.main on the directories as they are found.
MainInit ==
  /\ vectorstore = NoStore
  /\ disk \in InitDisks
  /\ pdfDir \in MainPdfDirs
  /\ embedder = "ok"
  /\ last = [op |-> "__init__", exc |-> "none", retB |-> FALSE, retDocs |-> <<>>,
             raised |-> "none", at |-> "", calls |-> <<>>, arg |-> 0]
  /\ hist = [fresh |-> disk.faiss.st = "absent" /\ disk.pkl.st = "absent",
             persistCalled |-> FALSE, setups |-> 0, rebuilds |-> 0]
  /\ \E s \in InputSeqs :
       app = [NoApp EXCEPT !.pc = "main", !.inputs = s]

\* main up to the test of indexer.index_exists().
Initialize ==
  /\ app.pc = "main"
  /\ \E f \in FaultsOf(InitFaults) :
       \E r \in { initialize_components(disk, pdfDir, f) } :
          /\ disk' = r.disk
          /\ pdfDir' = r.pd
          /\ last' = Call("initialize_components", r.exc, FALSE, <<>>, r.exc, "", <<>>, 0)
          /\ app' = IF r.exc # "none"
                    THEN [app EXCEPT !.pc = "exit", !.status = ExitFailure]
                    ELSE [app EXCEPT !.pc = IF index_exists(r.disk) THEN "ask" ELSE "setup"]
          /\ hist' = Hist(FALSE, 0)
          /\ UNCHANGED <<vectorstore, embedder>>

\* The rebuild prompt of main.
AskRebuild ==
  /\ app.pc = "ask"
  /\ app.inputs # <<>>
  /\ \E ev \in { Head(app.inputs) } :
       /\ app' = IF ev.kind = "interrupt"
                 THEN [app EXCEPT !.pc = "killed", !.inputs = Tail(@)]
                 ELSE IF ev.kind = "eof"
                 THEN [app EXCEPT !.pc = "exit", !.status = ExitFailure]
                 ELSE [app EXCEPT !.pc = IF IsYes(ev.text) THEN "rebuild" ELSE "load",
                                  !.inputs = Tail(@)]
       /\ last' = Call("input", "none", FALSE, <<>>,
                       IF ev.kind = "interrupt" THEN "KeyboardInterrupt"
                       ELSE IF ev.kind = "eof" THEN "EOFError" ELSE "none",
                       "", <<>>, 0)
       /\ hist' = Hist(FALSE, 0)
       /\ UNCHANGED <<vectorstore, disk, pdfDir, embedder>>

\* Where main goes after an index call that returned ok.
Proceed(ok) ==
  IF StartupNext(ok) = "loop"
  THEN [app EXCEPT !.pc = "loop", !.looped = TRUE]
  ELSE [app EXCEPT !.pc = "exit", !.status = ExitFailure]

MainRebuild ==
  /\ app.pc = "rebuild"
  /\ \E f \in FaultsOf(RebuildFaults) :
       \E r \in { rebuild_index(vectorstore, disk, pdfDir, embedder, f) } :
          /\ vectorstore' = r.vs
          /\ disk' = r.disk
          /\ last' = Call("rebuild_index", r.exc, r.ret, <<>>, r.cause, r.at, r.calls, 0)
          /\ hist' = Hist(Reached(r.calls, "create_n_save_index"), 0)
          /\ app' = Proceed(r.exc = "none" /\ r.ret)
          /\ UNCHANGED <<pdfDir, embedder>>

MainLoad ==
  /\ app.pc = "load"
  /\ \E f \in FaultsOf(LoadFaults) :
       \E r \in { load_index(vectorstore, disk, embedder, f) } :
          /\ vectorstore' = r.vs
          /\ disk' = r.disk
          /\ last' = Call("load_index", r.exc, FALSE, <<>>, r.exc, "", <<>>, 0)
          /\ hist' = Hist(FALSE, 0)
          /\ app' = Proceed(r.exc = "none")
          /\ UNCHANGED <<pdfDir, embedder>>

MainSetup ==
  /\ app.pc = "setup"
  /\ \E f \in FaultsOf(SetupFaults) :
       \E r \in { setup_index(vectorstore, disk, pdfDir, embedder, f) } :
          /\ vectorstore' = r.vs
          /\ disk' = r.disk
          /\ last' = Call("setup_index", r.exc, r.ret, <<>>, r.cause, r.at, r.calls, 0)
          /\ hist' = Hist(Reached(r.calls, "create_n_save_index"), 0)
          /\ app' = Proceed(r.exc = "none" /\ r.ret)
          /\ UNCHANGED <<pdfDir, embedder>>

\* One pass of query_loop: the prompt and what follows the input.
LoopIteration ==
  /\ app.pc = "loop"
  /\ app.inputs # <<>>
  /\ \E f \in FaultsOf(SearchFaults), llm \in LLMOutcomes :
       \E o \in { LoopPass(LoopTry(vectorstore, Head(app.inputs), f, llm)) } :
          /\ app' = [app EXCEPT
                       !.pc = AfterPass(o),
                       !.status = IF AfterPass(o) = "exit" THEN ExitFailure ELSE @,
                       !.q = IF o.asked THEN o.q ELSE @,
                       !.queries = IF o.asked THEN @ + 1 ELSE @,
                       !.inputs = IF Head(@).kind = "eof" THEN @ ELSE Tail(@)]
          /\ last' = Call(IF o.asked THEN "query" ELSE "input", "none", FALSE,
                          o.q.found, o.raised, "", <<>>, 0)
          /\ hist' = Hist(FALSE, 0)
          /\ UNCHANGED <<vectorstore, disk, pdfDir, embedder>>

MainNext ==
  \/ Initialize
  \/ AskRebuild
  \/ MainRebuild
  \/ MainLoad
  \/ MainSetup
  \/ LoopIteration

SpecMain == MainInit /\ [][MainNext]_vars

\* Every step main can take is eventually taken.
SpecMainLive == SpecMain /\ WF_vars(MainNext)

\* ------------------------------------------------------------------ claims
BothPresent == disk.faiss.st # "absent" /\ disk.pkl.st # "absent"
OnePresent  == (disk.faiss.st # "absent") # (disk.pkl.st # "absent")

\* The PDF directory is there and lists no entry with a PDF extension.
NoEligible == pdfDir.exists /\ ~AnyPdf(pdfDir)

\* C1: search on an engine whose handle is None raises ValueError and
\* returns nothing, whatever the query and k.
C1_SearchUnloadedFails ==
  last.op = "search" /\ ~vectorstore.loaded
    => last.exc = "ValueError" /\ last.retDocs = <<>>

C1_Witness ==
  /\ last.op = "search" /\ ~vectorstore.loaded
  /\ last.exc = "ValueError" /\ last.arg = DefaultK

\* C2: index_exists is true exactly when both artifact files are present,
\* so it is false when only one of them is.
C2_ExistsIffBothFiles ==
  /\ index_exists(disk) <=> BothPresent
  /\ last.op = "index_exists" => (last.retB <=> BothPresent)

C2_Witness ==
  last.op = "index_exists" /\ OnePresent /\ ~last.retB

\* C3: at a location that started without artifacts index_exists is false
\* until create_n_save_index or save_index is called; it is true right after
\* a create_n_save_index that returns normally and false right after a
\* _remove_existing_index that returns normally.
C3_ExistsFollowsLifecycle ==
  /\ hist.fresh /\ ~hist.persistCalled => ~index_exists(disk)
  /\ last.op = "create_n_save_index" /\ last.exc = "none" => index_exists(disk)
  /\ last.op = "_remove_existing_index" /\ last.exc = "none" => ~index_exists(disk)

C3_Witness ==
  /\ hist.fresh /\ hist.persistCalled
  /\ last.op = "_remove_existing_index" /\ last.exc = "none"
  /\ ~index_exists(disk) /\ vectorstore.loaded

\* C4 as claimed: rebuild_index on a directory without eligible files returns
\* False without raising and index_exists is false afterwards, whatever the
\* index location held and whichever deletion failed.
C4_Original ==
  last.op = "rebuild_index" /\ NoEligible
    => last.exc = "none" /\ ~last.retB /\ ~index_exists(disk)

\* C4 as amended: rebuild_index on a directory without eligible files returns
\* False without raising; index_exists is false afterwards, except when both
\* files were there and deleting the vector file failed: then the removal
\* stopped there, both files are as they were and index_exists is still true.
C4_RebuildWithoutPdfs ==
  [][ last'.op = "rebuild_index" /\ NoEligible
        => /\ last'.exc = "none" /\ ~last'.retB
           /\ index_exists(disk') <=>
                /\ index_exists(disk)
                /\ last'.at = "_remove_existing_index"
                /\ disk' = disk ]_vars

C4_Witness ==
  /\ last.op = "rebuild_index" /\ NoEligible /\ ~hist.fresh
  /\ last.exc = "none" /\ ~last.retB /\ last.raised = "none"
  /\ ~index_exists(disk) /\ ~OnePresent

\* C5: no exception leaves rebuild_index or setup_index, whatever fails in
\* them: they return False when something failed and True only when the
\* index is in memory and on disk.
C5_NeverRaises ==
  last.op \in {"rebuild_index", "setup_index"}
    => /\ last.exc = "none"
       /\ last.raised # "none" => ~last.retB
       /\ last.retB => vectorstore.loaded /\ index_exists(disk)

C5_Witness ==
  /\ last.op = "rebuild_index" /\ last.exc = "none" /\ ~last.retB
  /\ last.raised = "Exception" /\ last.at = "create_n_save_index"

\* C6: load_index without both files raises FileNotFoundError and changes
\* neither the handle nor the files.
C6_LoadMissingFails ==
  [][ last'.op = "load_index" /\ ~index_exists(disk)
        => /\ last'.exc = "FileNotFoundError"
           /\ vectorstore' = vectorstore
           /\ disk' = disk ]_vars

C6_Witness ==
  /\ last.op = "load_index" /\ last.exc = "FileNotFoundError"
  /\ OnePresent /\ ~vectorstore.loaded

\* C7: create_n_save_index with no documents, or with an embedder without a
\* model, raises (a ValueError) and changes neither the handle nor the files.
C7_CreateRejectsBadInput ==
  [][ last'.op = "create_n_save_index" /\ (last'.arg = 0 \/ embedder # "ok")
        => /\ last'.exc = "ValueError"
           /\ vectorstore' = vectorstore
           /\ disk'.faiss = disk.faiss /\ disk'.pkl = disk.pkl ]_vars

C7_Witness ==
  /\ last.op = "create_n_save_index" /\ last.arg > 0 /\ embedder # "ok"
  /\ last.exc = "ValueError"

\* C8: save_index with the handle None raises ValueError and writes nothing.
C8_SaveUnloadedFails ==
  [][ last'.op = "save_index" /\ ~vectorstore.loaded
        => /\ last'.exc = "ValueError"
           /\ disk' = disk
           /\ index_exists(disk') = index_exists(disk) ]_vars

C8_Witness ==
  /\ last.op = "save_index" /\ last.exc = "ValueError"
  /\ ~vectorstore.loaded /\ ~disk.dir

\* C9: search on a loaded engine raises nothing: a failure of the underlying
\* search gives the empty list, and so does a search that finds nothing; it
\* never returns more than k documents.
C9_SearchLoadedNeverRaises ==
  last.op = "search" /\ vectorstore.loaded
    => /\ last.exc = "none"
       /\ last.raised # "none" => last.retDocs = <<>>
       /\ last.arg = 0 => last.retDocs = <<>>
       /\ Len(last.retDocs) <= last.arg

C9_Witness ==
  /\ last.op = "search" /\ vectorstore.loaded /\ last.arg > 0
  /\ last.raised = "Exception" /\ last.exc = "none" /\ last.retDocs = <<>>

\* C10: setup_index on an existing index only calls load_index, leaves the
\* files alone and returns True exactly when the stored index is then in
\* memory; without an index it is rebuild_index: it ends as some run of
\* rebuild_index from the same state ends.
C10_SetupPolicy ==
  [][ last'.op = "setup_index"
        => IF index_exists(disk)
           THEN /\ last'.calls = <<"setup_index", "load_index">>
                /\ disk' = disk
                /\ last'.retB <=> last'.raised = "none"
                /\ last'.retB =>
                     vectorstore' = [loaded |-> TRUE, vecs |-> disk.faiss.vecs,
                                     docs |-> disk.pkl.docs]
                /\ ~last'.retB => vectorstore' = vectorstore
           ELSE /\ SubSeq(last'.calls, 1, 2) = <<"setup_index", "rebuild_index">>
                /\ \E f \in FaultsOf(RebuildFaults) :
                     \E r \in { rebuild_index(vectorstore, disk, pdfDir, embedder, f) } :
                        /\ last'.retB = r.ret /\ last'.exc = r.exc
                        /\ vectorstore' = r.vs /\ disk' = r.disk ]_vars

C10_Witness ==
  /\ last.op = "setup_index" /\ last.calls = <<"setup_index", "load_index">>
  /\ last.retB /\ vectorstore.docs = OldDocs /\ BothPresent


\* C11: with the PDF directory unchanged and no failure armed, a second
\* setup_index right after a first returns what the first returned and
\* leaves the artifact files and the loaded units as the first left them.
C11_SetupIdempotent ==
  [][ hist.setups >= 1 /\ hist'.setups = 2
        => /\ last'.retB = last.retB
           /\ disk' = disk
           /\ vectorstore' = vectorstore ]_vars

C11_Witness ==
  /\ hist.setups = 2 /\ hist.fresh /\ last.op = "setup_index" /\ last.retB
  /\ last.calls = <<"setup_index", "load_index">>
  /\ Len(vectorstore.docs) = 2


\* C12: query() on an engine whose index was never loaded returns the
\* index-not-available text, never the no-relevant-files text, and does not
\* call the completion service.
C12_UnloadedQueryIsStateError ==
  last.op = "query" /\ ~vectorstore.loaded
    => /\ app.q.exc = "none"
       /\ app.q.ret = IndexUnavailableMsg
       /\ app.q.ret # NoRelevantMsg
       /\ app.q.llmCalls = 0

C12_Witness ==
  /\ last.op = "query" /\ ~vectorstore.loaded /\ index_exists(disk)
  /\ app.q.ret = IndexUnavailableMsg

\* C13: when the search of a query gives no documents, query() returns the
\* fixed no-relevant-files text and the completion service is not called
\* during that query.
C13_NoResultsNoCompletion ==
  last.op = "query" /\ vectorstore.loaded /\ app.q.found = <<>>
    => /\ app.q.ret = NoRelevantMsg
       /\ app.q.llmCalls = 0

C13_Witness ==
  /\ last.op = "query" /\ vectorstore.loaded /\ app.q.found = <<>>
  /\ last.raised = "Exception" /\ app.q.ret = NoRelevantMsg

\* C14: no exception leaves query(); whether the search failed or the
\* completion service failed, it returns a non-empty text.
C14_QueryNeverRaises ==
  last.op = "query" => app.q.exc = "none" /\ app.q.ret # <<>>

C14_Witness ==
  /\ last.op = "query" /\ app.q.llmCalls = 1 /\ app.q.raised = "Exception"
  /\ app.q.ret = UnexpectedMsg


\* The sources of the documents a query found, and the ways to list each of
\* them once in ascending order.
FoundSources == { app.q.found[i].source : i \in 1..Len(app.q.found) }

AscendingListings ==
  { names \in [1..Cardinality(FoundSources) -> FoundSources] :
      \A i, j \in 1..Cardinality(FoundSources) :
        i < j => StrLess(names[i], names[j]) }

CandidateList(names) ==
  AnswerHead \o Bullet \o Join(NextBullet, names) \o <<"\n\n">>

\* C18: when the search gave documents and the completion service returned,
\* the answer of query() starts with the candidate list: every distinct
\* source of the documents found, once each, in ascending order, whatever
\* text the completion service returned.
C18_AnswerStartsWithCandidates ==
  last.op = "query" /\ app.q.found # <<>> /\ app.q.raised = "none"
    => \E names \in AscendingListings :
         /\ Len(app.q.ret) >= Len(CandidateList(names))
         /\ SubSeq(app.q.ret, 1, Len(CandidateList(names))) = CandidateList(names)
         /\ app.q.ret = CandidateList(names) \o SuggestionHead \o Strip(app.q.text)

C18_Witness ==
  /\ last.op = "query" /\ app.q.raised = "none" /\ Len(app.q.found) = 2
  /\ app.q.found[1].source = FileA.name /\ app.q.found[2].source = FileB.name
  /\ app.q.text = <<"-", " ", "o">>
  /\ app.q.ret[3] = "B"


\* What the index call main made last says about the index: it failed.
IndexCallFailed ==
  \/ last.op \in {"rebuild_index", "setup_index"} /\ ~last.retB
  \/ last.op = "load_index" /\ last.exc # "none"

\* C15: main is in query_loop only with the index loaded; when
\* rebuild_index or setup_index returned False, or load_index raised, the
\* process has exited with a non-zero status and query_loop was never
\* entered.
C15_LoopOnlyWhenLoaded ==
  /\ app.pc = "loop" \/ app.looped => vectorstore.loaded
  /\ IndexCallFailed
       => app.pc = "exit" /\ app.status # 0 /\ ~app.looped /\ app.queries = 0

C15_Witness ==
  /\ app.pc = "exit" /\ app.status = ExitFailure /\ ~app.looped
  /\ last.op = "rebuild_index" /\ ~last.retB
  /\ Reached(last.calls, "create_n_save_index") /\ vectorstore.loaded

\* The input at the prompt of query_loop is the exit word or an interrupt.
AtExitInput ==
  /\ app.inputs # <<>>
  /\ \/ Head(app.inputs).kind = "interrupt"
     \/ /\ Head(app.inputs).kind = "line"
        /\ LowerStr(Strip(Head(app.inputs).text)) = <<"e", "x", "i", "t">>

\* C16: after a query, whatever failed in it, query_loop is at its prompt
\* again (also when an exception leaves query()); the loop ends only on the
\* exit word or an interrupt.
C16_FailingQueryKeepsSession ==
  /\ [](\A e \in {"Exception", "ValueError", "OSError"} :
          AfterPass(LoopPass([next |-> "raise", asked |-> TRUE, q |-> NoQuery,
                              raised |-> e])) = "loop")
  /\ [][ app.pc = "loop"
           => /\ app'.queries # app.queries => app'.pc = "loop"
              /\ app'.pc # "loop" => app'.pc = "done" /\ AtExitInput ]_vars

C16_Witness ==
  /\ app.pc = "loop" /\ last.op = "query" /\ app.queries = 2
  /\ app.q.raised = "Exception" /\ app.q.ret = UnexpectedMsg

\* C17: in query_loop the exit word, trimmed and in any case, ends the loop
\* without a query; an empty or blank input makes no query and prompts
\* again; an interrupt ends the loop; so once the loop runs and the user is
\* going to enter the exit word, the run terminates.
C17_ExitEndsLoop ==
  /\ [][ app.pc = "loop" /\ app.inputs # <<>> /\ app' # app
           => /\ AtExitInput => app'.pc = "done" /\ app'.queries = app.queries
              /\ Head(app.inputs).kind = "line" /\ Strip(Head(app.inputs).text) = <<>>
                   => app'.pc = "loop" /\ app'.queries = app.queries
                        /\ app'.inputs = Tail(app.inputs) ]_vars
  /\ ( app.pc = "loop"
         /\ (\E i \in 1..Len(app.inputs) :
                /\ app.inputs[i].kind = "line"
                /\ LowerStr(Strip(app.inputs[i].text)) = <<"e", "x", "i", "t">>) )
       ~> app.pc = "done"

C17_Witness ==
  /\ app.pc = "done" /\ app.looped /\ app.queries = 1 /\ app.inputs = <<>>
  /\ last.op = "input" /\ last.raised = "none" /\ app.status = 0


\* The rankings of two handles agree for every query and every k.
SameRanking(vs1, vs2) ==
  \A q \in Queries, k \in 0..MaxK :
    search(vs1, q, k, {}).ret = search(vs2, q, k, {}).ret

PairOfOneSave(vs) ==
  /\ Len(vs.vecs) = Len(vs.docs)
  /\ \A i \in 1..Len(vs.docs) : vs.vecs[i] = Embed(vs.docs[i].text)

\* C20: load_index never succeeds on two artifact files that were not
\* written by one and the same completed save, also when a save failed
\* between the vector file and the metadata file while overwriting a pair.
C20_NoPartialReadBack ==
  last.op = "load_index" /\ last.exc = "none" => PairOfOneSave(vectorstore)


\* C21: _remove_existing_index raises a failed deletion and stops: when
\* os.remove of the vector file fails, OSError is raised, os.remove is not
\* called on the metadata file and both files stay; when the vector file
\* was deleted and os.remove of the metadata file fails, OSError is raised
\* and only the metadata file stays.
C21_RemoveAbortsOnFailure ==
  [][ last'.op = "_remove_existing_index"
        => /\ disk.faiss.st # "absent" /\ last'.at = "rm_faiss"
                => /\ last'.exc = "OSError"
                   /\ last'.calls = <<"faiss">>
                   /\ disk' = disk
           /\ disk.pkl.st # "absent" /\ last'.at = "rm_pkl"
                => /\ last'.exc = "OSError"
                   /\ disk'.faiss = NoFaiss
                   /\ disk'.pkl = disk.pkl /\ disk'.dir = disk.dir ]_vars

C21_Witness ==
  /\ last.op = "_remove_existing_index" /\ last.exc = "OSError"
  /\ last.at = "rm_pkl" /\ last.calls = <<"faiss", "pkl">>
  /\ disk.faiss = NoFaiss /\ disk.pkl.st # "absent"

\* C22: with at most one of the two artifact files there and no deletion
\* failing, _remove_existing_index returns without raising, calls os.remove
\* only on a file that is there, and leaves neither file.
C22_MissingFileIsNoOp ==
  [][ /\ last'.op = "_remove_existing_index" /\ last'.at = ""
      /\ disk.faiss.st = "absent" \/ disk.pkl.st = "absent"
      => /\ last'.exc = "none"
         /\ disk'.faiss = NoFaiss /\ disk'.pkl = NoPkl
         /\ Len(last'.calls) = (IF disk.faiss.st = "absent" THEN 0 ELSE 1)
                                + (IF disk.pkl.st = "absent" THEN 0 ELSE 1) ]_vars

C22_Witness ==
  /\ last.op = "_remove_existing_index" /\ last.exc = "none" /\ last.at = ""
  /\ last.calls = <<"pkl">>
  /\ disk.faiss = NoFaiss /\ disk.pkl = NoPkl


\* A step takes away an artifact file that was there.
FileRemoved ==
  \/ disk.faiss.st # "absent" /\ disk'.faiss.st = "absent"
  \/ disk.pkl.st # "absent" /\ disk'.pkl.st = "absent"

\* C23: an artifact file is deleted only by _remove_existing_index, the
\* first step of rebuild_index: index_exists, load_index, save_index,
\* search, query and setup_index on an existing index delete no file, and
\* a step that deletes one is a rebuild_index (also the one setup_index
\* makes when no index exists) whose first call is _remove_existing_index.
C23_OnlyRebuildDeletes ==
  [][ /\ \/ last'.op \in {"index_exists", "load_index", "save_index", "search", "query"}
         \/ last'.op = "setup_index" /\ index_exists(disk)
         => ~FileRemoved
      /\ FileRemoved
         => \/ last'.op = "_remove_existing_index"
            \/ /\ last'.op = "rebuild_index"
               /\ SubSeq(last'.calls, 1, 2) = <<"rebuild_index", "_remove_existing_index">>
            \/ /\ last'.op = "setup_index" /\ ~index_exists(disk)
               /\ SubSeq(last'.calls, 1, 3)
                    = <<"setup_index", "rebuild_index", "_remove_existing_index">> ]_vars

C23_Witness ==
  /\ last.op = "query" /\ app.q.llmCalls = 1 /\ app.q.raised = "none"
  /\ index_exists(disk) /\ disk.pkl.docs = vectorstore.docs
  /\ ~hist.fresh /\ ~hist.persistCalled


\* A directory entry that load_pdfs processes successfully: named *.pdf in
\* any case, extracted without an exception, with a page that has a
\* character other than whitespace.
YieldsUnit(file) ==
  /\ Len(file.name) >= 4
  /\ LowerStr(SubSeq(file.name, Len(file.name) - 3, Len(file.name))) = <<".", "p", "d", "f">>
  /\ file.ok
  /\ \E i \in 1..Len(file.pages) :
       \E j \in 1..Len(file.pages[i]) : file.pages[i][j] \notin {" ", "\n", "\t"}

\* C24: load_pdfs returns one Document for each file it processed
\* successfully, in the order of the listing, with the file name as its
\* source; no two Documents share a source, and a file with no pages or
\* with blank text only has no Document.
C24_OneUnitPerFile ==
  last.op = "load_pdfs" /\ last.exc = "none"
    => /\ \A i \in 1..Len(pdfDir.files) :
            Cardinality({ n \in 1..Len(last.retDocs) :
                            last.retDocs[n].source = pdfDir.files[i].name })
              = (IF YieldsUnit(pdfDir.files[i]) THEN 1 ELSE 0)
       /\ \A n \in 1..Len(last.retDocs) :
            /\ \E i \in 1..Len(pdfDir.files) :
                 last.retDocs[n].source = pdfDir.files[i].name
            /\ Strip(last.retDocs[n].text) # <<>>
       /\ \A n, m \in 1..Len(last.retDocs) :
            n # m => last.retDocs[n].source # last.retDocs[m].source

C24_Witness ==
  /\ last.op = "load_pdfs" /\ last.exc = "none"
  /\ pdfDir.files = <<FileE, FileB>>
  /\ Len(last.retDocs) = 1 /\ last.retDocs[1].source = FileB.name

\* C25: a file whose extraction raises does not end the scan: every other
\* file of the listing that load_pdfs can process is returned, wherever the
\* failing file stands in the listing.
C25_FailureIsolated ==
  /\ last.op = "load_pdfs" /\ last.exc = "none"
  /\ \E i \in 1..Len(pdfDir.files) : ~pdfDir.files[i].ok
  => \A j \in 1..Len(pdfDir.files) :
       YieldsUnit(pdfDir.files[j])
         => \E n \in 1..Len(last.retDocs) :
              /\ last.retDocs[n].source = pdfDir.files[j].name
              /\ last.retDocs[n].text = FullText(pdfDir.files[j])

C25_Witness ==
  /\ last.op = "load_pdfs" /\ last.exc = "none"
  /\ pdfDir.files = <<FileG, FileA>>
  /\ Len(last.retDocs) = 1 /\ last.retDocs[1].source = FileA.name

\* C26: LLMHandler() raises ValueError and makes no instance when the
\* provider name is neither "ollama" nor "groq", and when the provider is
\* "groq" and no API key is set.
C26_ConfigErrors ==
  last.op = "LLMHandler"
    => /\ app.llm.provider \notin {"ollama", "groq"}
            => last.exc = "ValueError" /\ ~app.llm.made
       /\ app.llm.provider = "groq" /\ app.llm.key \in {"<unset>", ""}
            => last.exc = "ValueError" /\ ~app.llm.made

C26_Witness ==
  /\ last.op = "LLMHandler" /\ last.exc = "ValueError" /\ ~app.llm.made
  /\ app.llm.provider = "Groq" /\ app.llm.key = "gsk"


EligibleButNoUnit ==
  /\ pdfDir.exists
  /\ \E i \in 1..Len(pdfDir.files) : IsPdfName(pdfDir.files[i].name)
  /\ \A i \in 1..Len(pdfDir.files) : ~YieldsUnit(pdfDir.files[i])

PersistFailures == {"save_before", "save_faiss", "save_between", "save_pkl"}

====
